---- MODULE Spec2Model ----
(***************************************************************************)
(* Luz Assistant Cloud Gateway (src/cloud_gateway.py).                     *)
(*                                                                         *)
(* The gateway forwards chat, transcription and text-to-speech requests    *)
(* to three HTTP backends and keeps a volatile registry of workers.        *)
(* Every handler is an `async def` without an await after its input has    *)
(* been read, and the outbound calls are blocking `requests` calls, so a   *)
(* handler runs to completion on the event loop: one action per handler.   *)
(* The transcription handler is split at its blocking backend call,        *)
(* because the temporary file it wrote exists while the call is pending.   *)
(*                                                                         *)
(* Text is a sequence of tokens: the literal pieces of the source's        *)
(* strings are one token each, caller and backend supplied text is one     *)
(* token per character.  Byte strings are sequences of runs [b, n]         *)
(* (byte b repeated n times); base64 text is a sequence of runs of         *)
(* four-character groups.                                                  *)
(***************************************************************************)
EXTENDS Integers, Sequences, FiniteSets, TLC

\* ---------------------------------------------------------------- bounds
MaxLen == 1          \* longest text / audio body supplied by a caller
MaxClock == 1        \* last clock tick of a run
TicksPerSecond == 2  \* clock ticks in one second
MaxWorkers == 3      \* registrations in a run

VARIABLES clock, last, pc, cur, tmpdir,
          workers_db, worker_counter, issued

vars == <<clock, last, pc, cur, tmpdir,
          workers_db, worker_counter, issued>>

\* ------------------------------------------------------------------ text
Min(a, b) == IF a <= b THEN a ELSE b

Digit(d) == <<"0", "1", "2", "3", "4", "5", "6", "7", "8", "9">>[d + 1]

\* str(n) for a non-negative integer
RECURSIVE IntToStr(_)
IntToStr(n) == IF n < 10 THEN <<Digit(n)>>
               ELSE IntToStr(n \div 10) \o <<Digit(n % 10)>>

\* sub in s  (contiguous occurrence)
Contains(s, sub) ==
  \E i \in 0..(Len(s) - Len(sub)) : SubSeq(s, i + 1, i + Len(sub)) = sub

\* str.strip()
RECURSIVE LStrip(_)
LStrip(s) == IF s # <<>> /\ Head(s) = " " THEN LStrip(Tail(s)) ELSE s
RECURSIVE RStrip(_)
RStrip(s) == IF s # <<>> /\ s[Len(s)] = " "
             THEN RStrip(SubSeq(s, 1, Len(s) - 1)) ELSE s
Strip(s) == RStrip(LStrip(s))

\* Optional[str]: <<>> is None, <<s>> is the string s.
None == <<>>
Some(s) == <<s>>
\* Python's  x or default  for an Optional[str]
Truthy(x) == x # None /\ x[1] # <<>>
OrElse(x, default) == IF Truthy(x) THEN x[1] ELSE default

\* datetime.now().isoformat() of the clock reading t: seconds, then the ticks
\* within the second.
isoformat(t) == IntToStr(t \div TicksPerSecond) \o <<".">>
                \o IntToStr(t % TicksPerSecond)
\* int(datetime.now().timestamp())
timestamp_int(t) == t \div TicksPerSecond

\* ----------------------------------------------------------------- bytes
Repeat(b, n) == IF n = 0 THEN <<>> ELSE <<[b |-> b, n |-> n]>>
FromList(s) == [i \in 1..Len(s) |-> [b |-> s[i], n |-> 1]]

RECURSIVE BLen(_)
BLen(bs) == IF bs = <<>> THEN 0 ELSE bs[1].n + BLen(Tail(bs))

RECURSIVE BAt(_, _)
BAt(bs, i) == IF i <= bs[1].n THEN bs[1].b ELSE BAt(Tail(bs), i - bs[1].n)

RECURSIVE BDrop(_, _)
BDrop(bs, k) ==
  IF k = 0 \/ bs = <<>> THEN bs
  ELSE IF bs[1].n <= k THEN BDrop(Tail(bs), k - bs[1].n)
  ELSE <<[b |-> bs[1].b, n |-> bs[1].n - k]>> \o Tail(bs)

\* v as k little-endian bytes (struct.pack '<L' / '<H')
LE(v, k) == [i \in 1..k |-> (v \div (256 ^ (i - 1))) % 256]

B64Alphabet ==
  <<"A","B","C","D","E","F","G","H","I","J","K","L","M","N","O","P","Q",
    "R","S","T","U","V","W","X","Y","Z","a","b","c","d","e","f","g","h",
    "i","j","k","l","m","n","o","p","q","r","s","t","u","v","w","x","y",
    "z","0","1","2","3","4","5","6","7","8","9","+","/">>

\* The four base64 characters of a group of m <= 3 bytes (missing bytes 0).
Quad(b1, b2, b3, m) ==
  LET v == b1 * 65536 + b2 * 256 + b3
  IN <<B64Alphabet[(v \div 262144) + 1],
       B64Alphabet[((v \div 4096) % 64) + 1],
       IF m >= 2 THEN B64Alphabet[((v \div 64) % 64) + 1] ELSE "=",
       IF m >= 3 THEN B64Alphabet[(v % 64) + 1] ELSE "=">>

\* base64.b64encode(bs).decode('utf-8')
RECURSIVE b64encode(_)
b64encode(bs) ==
  IF bs = <<>> THEN <<>>
  ELSE IF bs[1].n >= 3
  THEN LET k == bs[1].n \div 3
           b == bs[1].b
       IN <<[q |-> Quad(b, b, b, 3), n |-> k]>> \o b64encode(BDrop(bs, 3 * k))
  ELSE LET m == Min(3, BLen(bs))
       IN <<[q |-> Quad(BAt(bs, 1),
                        IF m >= 2 THEN BAt(bs, 2) ELSE 0,
                        IF m >= 3 THEN BAt(bs, 3) ELSE 0, m),
             n |-> 1]>> \o b64encode(BDrop(bs, m))

\* ------------------------------------------------------------ WAV fallback
SampleRate == 24000
DefaultDuration == 2

\* The 44-byte header the wave module writes in front of the frames.
WavHeader(nchannels, sampwidth, framerate, datalength) ==
  <<82, 73, 70, 70>> \o LE(36 + datalength, 4) \o <<87, 65, 86, 69>>
  \o <<102, 109, 116, 32>> \o LE(16, 4) \o LE(1, 2) \o LE(nchannels, 2)
  \o LE(framerate, 4) \o LE(nchannels * framerate * sampwidth, 4)
  \o LE(nchannels * sampwidth, 2) \o LE(sampwidth * 8, 2)
  \o <<100, 97, 116, 97>> \o LE(datalength, 4)

generate_silent_audio(duration_seconds) ==
  LET sample_rate == SampleRate
      num_frames == sample_rate * duration_seconds
      silent_data == Repeat(0, num_frames * 2)
  IN FromList(WavHeader(1, 2, sample_rate, BLen(silent_data))) \o silent_data

\* ------------------------------------------------------------- configuration
SERVICES == [whisper |-> "http://localhost:9000",
             llm |-> "http://localhost:9001",
             tts |-> "http://localhost:9002"]
\* SERVICES.items() iterates in insertion order
ServiceNames == <<"whisper", "llm", "tts">>

\* ------------------------------------------------- exceptions and responses
HTTPException(status_code, detail) ==
  [type |-> "HTTPException", status_code |-> status_code, detail |-> detail]
\* An exception that is not an HTTPException; detail is its message.
Exc(type, msg) == [type |-> type, status_code |-> 0, detail |-> msg]

\* str(e)
str(e) == IF e.type = "HTTPException"
          THEN IntToStr(e.status_code) \o <<": ">> \o e.detail
          ELSE e.detail

Return(body) == [raised |-> FALSE, body |-> body]
Raise(e) == [raised |-> TRUE, exc |-> e]

\* What the framework sends for a handler that returned or raised.
Respond(r) ==
  IF ~r.raised THEN [status |-> 200, body |-> r.body]
  ELSE IF r.exc.type = "HTTPException"
  THEN [status |-> r.exc.status_code, body |-> [detail |-> r.exc.detail]]
  ELSE [status |-> 500, body |-> [detail |-> <<"Internal Server Error">>]]

\* ------------------------------------------------------ inputs and backends
Chars == {"h", " "}
Texts == UNION {[1..n -> Chars] : n \in 0..MaxLen}

NoObj == [response |-> <<>>, text |-> <<>>, model |-> <<>>, tokens_used |-> 0]

\* What one outbound call comes back with.
HttpResponse(code, json, keys, obj, content) ==
  [kind |-> "response", status_code |-> code, json |-> json, keys |-> keys,
   obj |-> obj, content |-> content, exc |-> Exc("", <<>>)]
Raises(e) ==
  [kind |-> "raise", status_code |-> 0, json |-> FALSE, keys |-> {},
   obj |-> NoObj, content |-> <<>>, exc |-> e]
NoOutcome ==
  [kind |-> "none", status_code |-> 0, json |-> FALSE, keys |-> {},
   obj |-> NoObj, content |-> <<>>, exc |-> Exc("", <<>>)]

NonOK == {201, 500}

TransportFailures(url) ==
  { Raises(Exc("Timeout", <<"Read timed out: ", url>>)),
    Raises(Exc("ConnectionError", <<"Max retries exceeded with url: ", url>>)),
    Raises(Exc("TooManyRedirects", <<"Exceeded 30 redirects.">>)) }

ErrorResponses == {HttpResponse(c, FALSE, {}, NoObj, <<>>) : c \in NonOK}

LLMOutcomes ==
  { HttpResponse(200, TRUE, k,
                 [NoObj EXCEPT !.response = <<"o", "k">>, !.model = <<"phi">>,
                               !.tokens_used = 7], <<>>) :
      k \in {{}, {"response"}, {"response", "model", "tokens_used"}} }
  \cup {HttpResponse(200, FALSE, {}, NoObj, <<>>)}
  \cup ErrorResponses \cup TransportFailures(SERVICES["llm"])

WhisperOutcomes ==
  { HttpResponse(200, TRUE, {"text"}, [NoObj EXCEPT !.text = t], <<>>) :
      t \in {<<>>, <<" ">>, <<" ", "h">>, <<"h", "i", " ">>} }
  \cup {HttpResponse(200, TRUE, {}, NoObj, <<>>),
        HttpResponse(200, FALSE, {}, NoObj, <<>>)}
  \cup ErrorResponses \cup TransportFailures(SERVICES["whisper"])

TTSOutcomes ==
  { HttpResponse(200, FALSE, {}, NoObj, c) :
      c \in {<<>>, Repeat(7, 99), Repeat(7, 100),
             FromList(<<82, 73, 70, 70>>) \o Repeat(1, 200)} }
  \cup ErrorResponses \cup TransportFailures(SERVICES["tts"])

HealthOutcomes(url) ==
  { HttpResponse(200, FALSE, {}, NoObj, <<>>),
    HttpResponse(500, FALSE, {}, NoObj, <<>>),
    Raises(Exc("ConnectionError", <<"Max retries exceeded with url: ", url>>)) }

\* dict.get(key, default) on the parsed JSON object of a response
get(out, key, default) == IF key \in out.keys THEN out.obj[key] ELSE default

ChatRequests ==
  [message : Texts, conversation_id : {None, Some(<<"c">>)}, user_id : {None}]
  \cup {[message |-> <<"h">>, conversation_id |-> Some(<<>>),
         user_id |-> Some(<<"u">>)]}
TTSRequests ==
  [text : Texts, voice : {<<"luz">>}]
  \cup {[text |-> <<"h">>, voice |-> <<"v">>]}
Uploads ==
  [filename : {<<"a.wav">>}, content_type : {<<"audio/wav">>},
   content : {<<>>} \cup {Repeat(b, n) : b \in {0, 1}, n \in 1..MaxLen}]
Registrations ==
  { [worker_url |-> <<"http://pc1:9000">>, worker_name |-> <<"Luz-AI-Worker">>,
     auth_token |-> None],
    [worker_url |-> <<"http://pc2:9000">>, worker_name |-> <<"pc2">>,
     auth_token |-> Some(<<"s">>)],
    [worker_url |-> <<"http://pc1:9000">>, worker_name |-> <<"pc2">>,
     auth_token |-> None] }
TmpNames == {"tmp1.wav", "tmp2.wav"}

\* The temporary directory: for every name, whether the file exists and what
\* it holds.
NoFile == [exists |-> FALSE, content |-> <<>>]

Call(url, payload, timeout) ==
  [url |-> url, payload |-> payload, timeout |-> timeout]

\* ------------------------------------------------------------------ handlers
JSONDecodeError == Exc("JSONDecodeError", <<"Expecting value: line 1 column 1 (char 0)">>)

root(t) ==
  Return([service |-> <<"Luz Assistant Cloud Gateway">>,
          status |-> <<"online">>,
          version |-> <<"1.0.0">>,
          services |-> SERVICES,
          endpoints |-> [chat |-> <<"POST /api/chat">>,
                         transcribe |-> <<"POST /api/transcribe">>,
                         tts |-> <<"POST /api/tts">>,
                         health |-> <<"GET /health">>,
                         service_status |-> <<"GET /api/services/status">>],
          timestamp |-> isoformat(t)])

health_check(t) == Return([status |-> <<"healthy">>, timestamp |-> isoformat(t)])

\* outs[service_name] is what GET {service_url}/health comes back with
services_status(outs, t) ==
  LET status == [service_name \in DOMAIN SERVICES |->
        LET service_url == SERVICES[service_name]
            response == outs[service_name]
        IN IF response.kind = "raise"
           THEN [url |-> service_url, status |-> "offline",
                 error |-> str(response.exc)]
           ELSE [url |-> service_url,
                 status |-> IF response.status_code = 200 THEN "online"
                            ELSE "error",
                 code |-> response.status_code]]
  IN Return([gateway |-> <<"online">>, services |-> status,
             timestamp |-> isoformat(t)])

\* Lines 112-115: the check of the uploaded body.
transcribe_check(audio_content) ==
  IF audio_content = <<>> \/ BLen(audio_content) = 0
  THEN Raise(HTTPException(400, <<"Archivo de audio vacío">>))
  ELSE Return([ok |-> TRUE])

\* Lines 122-176: the inner try with its except clauses.
transcribe_inner(audio, response, t) ==
  IF response.kind = "raise"
  THEN IF response.exc.type = "Timeout"
       THEN Raise(HTTPException(504, <<"Whisper service timeout">>))
       ELSE IF response.exc.type = "ConnectionError"
       THEN Raise(HTTPException(503, <<"Whisper service unreachable">>))
       ELSE Raise(response.exc)
  ELSE IF response.status_code = 200
  THEN IF ~response.json THEN Raise(JSONDecodeError)
       ELSE LET stripped == Strip(get(response, "text", <<>>))
                transcribed_text ==
                  IF stripped = <<>>
                  THEN <<"No se pudo transcribir el audio">> ELSE stripped
            IN Return([text |-> transcribed_text,
                       status |-> <<"success">>,
                       filename |-> audio.filename,
                       file_size |-> BLen(audio.content),
                       note |-> <<"Transcripción completada por Whisper">>,
                       timestamp |-> isoformat(t)])
  ELSE LET fallback_text ==
             <<"Hola, esto es una transcripción de prueba desde el gateway">>
       IN Return([text |-> fallback_text,
                  status |-> <<"fallback">>,
                  filename |-> audio.filename,
                  note |-> <<"Servicio Whisper no disponible. Usando texto de prueba.">>,
                  timestamp |-> isoformat(t)])

\* Lines 183-185: the outer except clause.
transcribe_outer(r) ==
  IF r.raised
  THEN Raise(HTTPException(500, <<"Gateway error: ">> \o str(r.exc)))
  ELSE r

\* A finally clause that leaves the file where it is.
transcribe_cleanup_skipped(fs, temp_path) == fs

\* Lines 178-181: the finally clause.
transcribe_cleanup(fs, temp_path) ==
  IF fs[temp_path].exists
  THEN [fs EXCEPT ![temp_path] = NoFile]
  ELSE fs

chat_call(request, t) ==
  LET llm_url == SERVICES["llm"]
      payload ==
        [prompt |-> request.message,
         conversation_id |-> OrElse(request.conversation_id,
                               <<"conv_">> \o IntToStr(timestamp_int(t))),
         user_id |-> OrElse(request.user_id, <<"android_user">>),
         max_tokens |-> 500,
         temperature |-> <<"0.7">>]
  IN Call(<<llm_url, "/generate">>, payload, 30)

\* The fallback text without the caller's message.
chat_fallback_response_nomsg(message) ==
  <<"Luz Assistant Cloud Gateway\n\nHas dicho: '">>
  \o <<"'\n\nServidor: https://luz-assistant-claud.onrender.com\nStatus: Online\nNota: LLM service unavailable">>

\* Line 236: the f-string of the fallback text.
chat_fallback_response(message) ==
  <<"Luz Assistant Cloud Gateway\n\nHas dicho: '">>
  \o message
  \o <<"'\n\nServidor: https://luz-assistant-claud.onrender.com\nStatus: Online\nNota: LLM service unavailable">>

chat(request, response, t) ==
  IF response.kind = "raise"
  THEN IF response.exc.type = "Timeout"
       THEN Raise(HTTPException(504, <<"LLM service timeout">>))
       ELSE IF response.exc.type = "ConnectionError"
       THEN Raise(HTTPException(503, <<"LLM service unreachable">>))
       ELSE Raise(HTTPException(500, <<"Chat processing error: ">>
                                      \o str(response.exc)))
  ELSE IF response.status_code = 200
  THEN IF ~response.json
       THEN Raise(HTTPException(500, <<"Chat processing error: ">>
                                      \o str(JSONDecodeError)))
       ELSE LET ai_response ==
                  get(response, "response",
                      <<"Lo siento, no pude procesar tu mensaje.">>)
            IN Return([response |-> ai_response,
                       conversation_id |-> request.conversation_id,
                       timestamp |-> isoformat(t),
                       model |-> get(response, "model", <<"llama">>),
                       tokens_used |-> get(response, "tokens_used", 0)])
  ELSE LET fallback_response == chat_fallback_response(request.message)
       IN Return([response |-> fallback_response,
                  conversation_id |-> request.conversation_id,
                  timestamp |-> isoformat(t),
                  note |-> <<"LLM service temporarily unavailable">>,
                  status |-> <<"fallback">>])

tts_call(request) ==
  LET tts_url == SERVICES["tts"]
      payload == [text |-> request.text, voice |-> request.voice,
                  language |-> <<"es">>, speed |-> <<"1.0">>]
  IN Call(<<tts_url, "/synthesize">>, payload, 30)

\* A float as the quotient num / den.
Float(num, den) == [num |-> num, den |-> den]

text_to_speech(request, response, t) ==
  IF response.kind = "raise"
  THEN IF response.exc.type = "Timeout"
       THEN Raise(HTTPException(504, <<"TTS service timeout">>))
       ELSE IF response.exc.type = "ConnectionError"
       THEN Raise(HTTPException(503, <<"TTS service unreachable">>))
       ELSE Raise(HTTPException(500, <<"TTS processing error: ">>
                                      \o str(response.exc)))
  ELSE IF response.status_code = 200
  THEN LET audio_content == response.content
       IN IF audio_content = <<>> \/ BLen(audio_content) < 100
          THEN Raise(HTTPException(500, <<"TTS processing error: ">>
                 \o str(Exc("ValueError", <<"TTS devolvió audio inválido">>))))
          ELSE Return([audio |-> b64encode(audio_content),
                       text |-> request.text,
                       voice |-> request.voice,
                       format |-> <<"wav">>,
                       sample_rate |-> 24000,
                       duration_seconds |->
                         Float(BLen(audio_content), 24000 * 2),
                       timestamp |-> isoformat(t)])
  ELSE LET fallback_audio == generate_silent_audio(DefaultDuration)
           audio_base64 == b64encode(fallback_audio)
       IN Return([audio |-> audio_base64,
                  text |-> request.text,
                  voice |-> request.voice,
                  format |-> <<"wav">>,
                  sample_rate |-> 24000,
                  duration_seconds |-> Float(2, 1),
                  note |-> <<"TTS service unavailable. Using silent audio.">>,
                  status |-> <<"fallback">>,
                  timestamp |-> isoformat(t)])

\* f"worker_{worker_counter}"
worker_id_of(counter) == <<"worker_">> \o IntToStr(counter)

\* The record register_worker stores; the clock is read at t1, then at t2.
worker_record(worker_id, worker, t1, t2) ==
  [id |-> worker_id,
   name |-> worker.worker_name,
   url |-> worker.worker_url,
   auth_token |-> worker.auth_token,
   registered_at |-> isoformat(t1),
   last_seen |-> isoformat(t2)]

\* A counter that is not advanced.
next_worker_counter_stale(counter) == counter

\* Line 387
next_worker_counter(counter) == counter + 1

list_workers(db, t) ==
  Return([count |-> Cardinality(DOMAIN db), workers |-> db,
          timestamp |-> isoformat(t)])

\* --------------------------------------------------------------------- state
\* clock          the wall clock, in ticks
\* last           the request completed last: its input, what the backend
\*                call came back with, the response sent, the outbound calls
\* pc, cur        position of the transcription in progress and its upload
\* tmpdir         the temporary directory
\* workers_db, worker_counter   the worker registry
\* issued         the registrations completed: the id returned and the input
NoCur == [audio |-> [filename |-> <<>>, content_type |-> <<>>, content |-> <<>>],
          temp_path |-> ""]

Completed(op, req, out, r, calls, tmp) ==
  [op |-> op, req |-> req, out |-> out, status |-> Respond(r).status,
   body |-> Respond(r).body, calls |-> calls, tmp |-> tmp]

Init ==
  /\ clock = 0
  /\ last = [op |-> "none", req |-> <<>>, out |-> NoOutcome, status |-> 0,
             body |-> [none |-> TRUE], calls |-> <<>>, tmp |-> ""]
  /\ pc = "idle"
  /\ cur = NoCur
  /\ tmpdir = [p \in TmpNames |-> NoFile]
  /\ workers_db = [id \in {} |-> 0]
  /\ worker_counter = 0
  /\ issued = <<>>

registry == <<workers_db, worker_counter, issued>>

Root ==
  /\ pc = "idle"
  /\ \E t \in clock..MaxClock :
       /\ clock' = t
       /\ last' = Completed("root", <<>>, NoOutcome, root(t), <<>>, "")
  /\ UNCHANGED <<pc, cur, tmpdir, registry>>

HealthCheck ==
  /\ pc = "idle"
  /\ \E t \in clock..MaxClock :
       /\ clock' = t
       /\ last' = Completed("health", <<>>, NoOutcome, health_check(t), <<>>, "")
  /\ UNCHANGED <<pc, cur, tmpdir, registry>>

ServicesStatus ==
  /\ pc = "idle"
  /\ \E ow \in HealthOutcomes(SERVICES["whisper"]),
        ol \in HealthOutcomes(SERVICES["llm"]),
        ot \in HealthOutcomes(SERVICES["tts"]),
        t \in clock..MaxClock :
       LET outs == [whisper |-> ow, llm |-> ol, tts |-> ot]
           calls == [i \in 1..3 |->
                       Call(<<SERVICES[ServiceNames[i]], "/health">>, <<>>, 5)]
       IN /\ clock' = t
          /\ last' = Completed("services_status", <<>>, NoOutcome,
                               services_status(outs, t), calls, "")
  /\ UNCHANGED <<pc, cur, tmpdir, registry>>

\* /api/transcribe up to the blocking call: read the upload, check it, write
\* the temporary file.
TranscribeBegin ==
  /\ pc = "idle"
  /\ \E audio \in Uploads :
       LET checked == transcribe_check(audio.content)
       IN IF checked.raised
          THEN /\ last' = Completed("transcribe", audio, NoOutcome,
                                    transcribe_outer(checked), <<>>, "")
               /\ UNCHANGED <<pc, cur, tmpdir>>
          ELSE \E temp_path \in {p \in TmpNames : ~tmpdir[p].exists} :
                 /\ tmpdir' = [tmpdir EXCEPT ![temp_path] =
                                 [exists |-> TRUE, content |-> audio.content]]
                 /\ cur' = [audio |-> audio, temp_path |-> temp_path]
                 /\ pc' = "posting"
                 /\ UNCHANGED last
  /\ UNCHANGED <<clock, registry>>

\* /api/transcribe from the backend's answer on: the response, the finally
\* clause, the outer except clause.
TranscribeFinish ==
  /\ pc = "posting"
  /\ \E response \in WhisperOutcomes, t \in clock..MaxClock :
       LET whisper_url == SERVICES["whisper"]
           files == [file |-> <<cur.audio.filename,
                                tmpdir[cur.temp_path].content,
                                cur.audio.content_type>>]
           call == Call(<<whisper_url, "/transcribe">>, files, 60)
           r == transcribe_outer(transcribe_inner(cur.audio, response, t))
       IN /\ clock' = t
          /\ last' = Completed("transcribe", cur.audio, response, r,
                               <<call>>, cur.temp_path)
  /\ tmpdir' = transcribe_cleanup(tmpdir, cur.temp_path)
  /\ pc' = "idle"
  /\ cur' = NoCur
  /\ UNCHANGED registry

Chat ==
  /\ pc = "idle"
  /\ \E request \in ChatRequests, response \in LLMOutcomes,
        t1 \in clock..MaxClock :
       \E t2 \in t1..MaxClock :
         \* the payload needs the clock only when no conversation id came
         /\ Truthy(request.conversation_id) => t1 = clock
         /\ clock' = t2
         /\ last' = Completed("chat", request, response,
                              chat(request, response, t2),
                              <<chat_call(request, t1)>>, "")
  /\ UNCHANGED <<pc, cur, tmpdir, registry>>

TextToSpeech ==
  /\ pc = "idle"
  /\ \E request \in TTSRequests, response \in TTSOutcomes,
        t \in clock..MaxClock :
       /\ clock' = t
       /\ last' = Completed("tts", request, response,
                            text_to_speech(request, response, t),
                            <<tts_call(request)>>, "")
  /\ UNCHANGED <<pc, cur, tmpdir, registry>>

RegisterWorker ==
  /\ pc = "idle"
  /\ worker_counter < MaxWorkers
  /\ \E worker \in Registrations, t1 \in clock..MaxClock :
       \E t2 \in t1..MaxClock :
         \E t3 \in t2..MaxClock :
           LET worker_id == worker_id_of(worker_counter)
               rec == worker_record(worker_id, worker, t1, t2)
           IN /\ workers_db' =
                   [id \in DOMAIN workers_db \cup {worker_id} |->
                      IF id = worker_id THEN rec ELSE workers_db[id]]
              /\ worker_counter' = next_worker_counter(worker_counter)
              /\ issued' = Append(issued, [worker_id |-> worker_id,
                                           worker |-> worker])
              /\ clock' = t3
              /\ last' = Completed("register", worker, NoOutcome,
                           Return([worker_id |-> worker_id,
                                   status |-> <<"registered">>,
                                   message |-> <<"Worker ">> \o worker.worker_name
                                               \o <<" registrado exitosamente">>,
                                   timestamp |-> isoformat(t3)]),
                           <<>>, "")
  /\ UNCHANGED <<pc, cur, tmpdir>>

ListWorkers ==
  /\ pc = "idle"
  /\ \E t \in clock..MaxClock :
       /\ clock' = t
       /\ last' = Completed("list", <<>>, NoOutcome,
                            list_workers(workers_db, t), <<>>, "")
  /\ UNCHANGED <<pc, cur, tmpdir, registry>>

\* The forwarding endpoints.
Next ==
  \/ Root
  \/ HealthCheck
  \/ ServicesStatus
  \/ TranscribeBegin
  \/ TranscribeFinish
  \/ Chat
  \/ TextToSpeech

Spec == Init /\ [][Next]_vars

\* The worker registry.
NextWorkers ==
  \/ RegisterWorker
  \/ ListWorkers

SpecWorkers == Init /\ [][NextWorkers]_vars

\* ------------------------------------------------- reading a response back
B64Value(c) == (CHOOSE i \in 1..64 : B64Alphabet[i] = c) - 1

\* The bytes of one four-character group.
UnQuad(q) ==
  LET pad == Cardinality({i \in 1..4 : q[i] = "="})
      val(i) == IF q[i] = "=" THEN 0 ELSE B64Value(q[i])
      v == val(1) * 262144 + val(2) * 4096 + val(3) * 64 + val(4)
  IN SubSeq(<<v \div 65536, (v \div 256) % 256, v % 256>>, 1, 3 - pad)

RECURSIVE RepeatList(_, _)
RepeatList(g, n) == IF n = 0 THEN <<>> ELSE FromList(g) \o RepeatList(g, n - 1)

\* base64.b64decode
RECURSIVE b64decode(_)
b64decode(s) ==
  IF s = <<>> THEN <<>>
  ELSE LET g == UnQuad(s[1].q)
       IN (IF Len(g) = 3 /\ g[1] = g[2] /\ g[2] = g[3]
           THEN Repeat(g[1], 3 * s[1].n)
           ELSE RepeatList(g, s[1].n)) \o b64decode(Tail(s))

\* The little-endian number in bytes i .. i+k-1
RECURSIVE UnLE(_, _, _)
UnLE(bs, i, k) == IF k = 0 THEN 0
                  ELSE BAt(bs, i) + 256 * UnLE(bs, i + 1, k - 1)

BytesAt(bs, i, k) == [j \in 1..k |-> BAt(bs, i + j - 1)]

\* What a WAV reader finds in bs.
WavRead(bs) ==
  IF BLen(bs) < 44 THEN [valid |-> FALSE]
  ELSE [valid |-> /\ BytesAt(bs, 1, 4) = <<82, 73, 70, 70>>
                  /\ BytesAt(bs, 9, 4) = <<87, 65, 86, 69>>
                  /\ BytesAt(bs, 13, 4) = <<102, 109, 116, 32>>
                  /\ BytesAt(bs, 37, 4) = <<100, 97, 116, 97>>
                  /\ UnLE(bs, 5, 4) = BLen(bs) - 8
                  /\ UnLE(bs, 21, 2) = 1
                  /\ UnLE(bs, 41, 4) = BLen(bs) - 44,
        nchannels |-> UnLE(bs, 23, 2),
        framerate |-> UnLE(bs, 25, 4),
        bits |-> UnLE(bs, 35, 2),
        frames |-> BDrop(bs, 44)]

AllZero(bs) == \A i \in 1..Len(bs) : bs[i].b = 0

BackendAnswered(ops) ==
  last.op \in ops /\ last.out.kind = "response"
BackendRaised(ops, type) ==
  last.op \in ops /\ last.out.kind = "raise" /\ last.out.exc.type = type
HasStatus(marker) ==
  "status" \in DOMAIN last.body /\ last.body.status = marker

\* The payload of the request completed last passes the validation of the
\* specification.
ValidPayload ==
  /\ last.op = "chat" => last.req.message # <<>>
  /\ last.op = "tts" => last.req.text # <<>>
  /\ last.op = "transcribe" => BLen(last.req.content) > 0

\* The /api/tts fallback response of the specification.
IsSilentFallback ==
  /\ last.status = 200
  /\ HasStatus(<<"fallback">>)
  /\ last.body.sample_rate = 24000
  /\ last.body.duration_seconds.num = 2 * last.body.duration_seconds.den
  /\ LET wav == WavRead(b64decode(last.body.audio))
     IN /\ wav.valid
        /\ wav.nchannels = 1
        /\ wav.bits = 16
        /\ BLen(wav.frames) = 24000 * 2 * 2
        /\ AllZero(wav.frames)

\* ------------------------------------------------------------------ claims

\* C1: an empty upload to /api/transcribe gets HTTP 400, and no call to the
\* speech-to-text backend is made for it.
C1_EmptyUploadIs400 ==
  (last.op = "transcribe" /\ BLen(last.req.content) = 0)
    => (last.status = 400 /\ last.calls = <<>>)

\* C2: on /api/chat and /api/transcribe a backend timeout gives HTTP 504 and
\* a failed connection gives HTTP 503.
C2_TransportFailuresSurface ==
  /\ (BackendRaised({"chat", "transcribe"}, "Timeout") /\ ValidPayload)
       => last.status = 504
  /\ (BackendRaised({"chat", "transcribe"}, "ConnectionError") /\ ValidPayload)
       => last.status = 503

\* C3: whatever the text, when the speech-synthesis backend is down (timeout
\* or connection refused), /api/tts answers 200 with status "fallback",
\* sample_rate 24000, duration_seconds 2.0 and a mono 16-bit WAV of 96000
\* zero bytes.
C3_FallbackWhenBackendDown ==
  (BackendRaised({"tts"}, "Timeout") \/ BackendRaised({"tts"}, "ConnectionError"))
    => IsSilentFallback

\* What text_to_speech does instead: the silent fallback answers a backend
\* response other than 200; a timeout gives HTTP 504 and a refused
\* connection HTTP 503.
TTS_FallbackOnErrorStatus ==
  /\ (BackendAnswered({"tts"}) /\ last.out.status_code # 200)
       => IsSilentFallback
  /\ BackendRaised({"tts"}, "Timeout") => last.status = 504
  /\ BackendRaised({"tts"}, "ConnectionError") => last.status = 503

TTS_FallbackReached ==
  /\ BackendAnswered({"tts"})
  /\ last.out.status_code = 500
  /\ last.req.text = <<"h">>
  /\ BLen(b64decode(last.body.audio)) = 96044

\* C4: with a valid payload, a backend answer other than 200 gives a 200
\* response marked "fallback" on all three operations; the chat fallback
\* text contains the message, the transcription fallback is a fixed text.
C4_SoftFailureFallsBack ==
  (/\ BackendAnswered({"chat", "transcribe", "tts"})
   /\ last.out.status_code # 200
   /\ ValidPayload)
    => /\ last.status = 200
       /\ HasStatus(<<"fallback">>)
       /\ last.op = "chat" => Contains(last.body.response, last.req.message)
       /\ last.op = "transcribe" =>
            last.body.text =
              <<"Hola, esto es una transcripción de prueba desde el gateway">>

C4_Witness ==
  /\ BackendAnswered({"chat"})
  /\ last.out.status_code = 201
  /\ last.req.message = <<"h">>
  /\ HasStatus(<<"fallback">>)

\* C5: an empty chat message and an empty TTS text are rejected with a
\* client error, and no backend call is made for them.
C5_EmptyTextRejected ==
  (\/ last.op = "chat" /\ last.req.message = <<>>
   \/ last.op = "tts" /\ last.req.text = <<>>)
    => (last.status \in 400..499 /\ last.calls = <<>>)

\* C6: a 200 response of /api/chat has the fields response,
\* conversation_id, timestamp and a status marker, and the same field set
\* whether the backend or the fallback produced it.
C6_ChatEnvelopeUniform ==
  (last.op = "chat" /\ last.status = 200)
    => /\ {"response", "conversation_id", "timestamp", "status"}
            \subseteq DOMAIN last.body
       /\ DOMAIN last.body =
            DOMAIN chat(last.req, HttpResponse(500, FALSE, {}, NoObj, <<>>),
                        clock).body

\* C7: every registered worker is in the /api/workers listing under the id
\* register returned, with its url and name and last_seen = registered_at.
C7_ListingRoundTrip ==
  last.op = "list" =>
    \A i \in 1..Len(issued) :
      LET id == issued[i].worker_id
          listing == last.body.workers
      IN /\ id \in DOMAIN listing
         /\ listing[id].id = id
         /\ listing[id].url = issued[i].worker.worker_url
         /\ listing[id].name = issued[i].worker.worker_name
         /\ listing[id].last_seen = listing[id].registered_at

\* C8: no response holds a backend base URL or the text of an exception.
BackendURLs == {SERVICES[s] : s \in DOMAIN SERVICES}
Tokens(text) == {text[i] : i \in 1..Len(text)}

C8_NoInternalsInResponses ==
  /\ last.op = "root" =>
       \A s \in DOMAIN last.body.services :
         last.body.services[s] \notin BackendURLs
  /\ last.op = "services_status" =>
       \A s \in DOMAIN last.body.services :
         /\ last.body.services[s].url \notin BackendURLs
         /\ "error" \notin DOMAIN last.body.services[s]
  /\ "detail" \in DOMAIN last.body =>
       /\ Tokens(last.body.detail) \cap BackendURLs = {}
       /\ last.out.kind = "raise" =>
            ~Contains(last.body.detail, str(last.out.exc))

\* C9: every registration gets an id of its own, no worker record is
\* overwritten or removed, and /api/workers reports as many workers as
\* registrations have completed, which is worker_counter.
C9_RegistryCounts ==
  /\ \A i, j \in 1..Len(issued) :
       issued[i].worker_id = issued[j].worker_id => i = j
  /\ Cardinality(DOMAIN workers_db) = Len(issued)
  /\ worker_counter = Len(issued)
  /\ last.op = "list" => last.body.count = Len(issued)

C9_RecordsKept ==
  \A id \in DOMAIN workers_db :
    id \in DOMAIN workers_db' /\ workers_db'[id] = workers_db[id]

C9_RegistryConsistent == [](C9_RegistryCounts) /\ [][C9_RecordsKept]_vars

C9_Witness ==
  /\ last.op = "list"
  /\ last.body.count = 2
  /\ Len(issued) = 2
  /\ issued[1].worker = issued[2].worker

\* C10: the temporary file a transcription wrote is gone once the request
\* has completed, whatever the backend call came to.
C10_TempFileRemoved ==
  (pc = "idle" /\ last.op = "transcribe" /\ last.tmp # "")
    => ~tmpdir[last.tmp].exists

C10_Witness ==
  /\ pc = "idle"
  /\ BackendRaised({"transcribe"}, "TooManyRedirects")
  /\ last.tmp # ""
  /\ last.status = 500

====
